---- MODULE Spec2Model ----
(***************************************************************************)
(* A model of joplin_to_obsidian.py: the filename sanitizer, the folder    *)
(* hierarchy resolver, the resource rewriter and the export loop.          *)
(*                                                                         *)
(* Text is a sequence of symbols.  A symbol is a one-character string, or  *)
(* the unit "&nbsp;", which stands for that six-character substring.       *)
(***************************************************************************)
EXTENDS Integers, Sequences, FiniteSets, TLC

VARIABLES pc, name, sanitized,
          folders, folder_hierarchy, root_folder_id,
          resource_lookup, src_status, assets_exists, assets_files,
          body, note_base_name, body_processed, rid_to_new_filename,
          copied, assets_created, raised,
          notes_table, resource_dir, dirs, unwritable, preexisting, note_files,
          notes, idx, success_count, fail_count, run, last, written

sanVars == <<name, sanitized>>
hierVars == <<folders, folder_hierarchy, root_folder_id>>
\* resource_lookup: identifier -> stored filename; src_status: what lies at the
\* stored filename's path in the resource directory.
resVars == <<resource_lookup, src_status>>
\* The assets directory: whether it exists, and its files (name -> the stored
\* filename whose content was copied).
assetVars == <<assets_exists, assets_files>>
\* The latest process_resources call: its arguments, its locals, its result.
callVars == <<body, note_base_name, body_processed, rid_to_new_filename,
              copied, assets_created, raised>>
\* The database's notes table and the resource directory, both only read.
inputVars == <<notes_table, resource_dir>>
\* The output tree: its directories (a directory is the sequence of its path
\* segments below the output directory), those in which no entry can be
\* created, those that were there before the first run, and the note files.
treeVars == <<dirs, unwritable, preexisting, note_files>>
\* export_notes: the queried notes, the number of loop iterations done, the
\* counters, the number of the run, what the latest iteration did, and every
\* completed write of a note file, in order.
loopVars == <<notes, idx, success_count, fail_count, run, last, written>>
exportVars == <<inputVars, treeVars, loopVars>>
vars == <<pc, sanVars, hierVars, resVars, assetVars, callVars, exportVars>>

\* ------------------------------------------------------------------ bounds
MaxNameLen == 3
MaxFolders == 3
MaxBodyLen == 4
MaxNotes == 2
MaxRuns == 2

\* ------------------------------------------------------------ text helpers
\* The character class with its last character left out.
IllegalCharsNoPipe == {"\\", "/", ":", "\"", "*", "?", "<", ">"}

\* The character class of the regular expression of sanitize_filename.
IllegalChars == {"\\", "/", ":", "\"", "*", "?", "<", ">", "|"}

\* str.strip(): the characters dropped at both ends.
Whitespace == {" ", "\t"}

\* The indices of s that start a maximal run of illegal characters or hold a
\* legal one.
KeptIndices(s) ==
    SelectSeq([i \in 1..Len(s) |-> i],
              LAMBDA i : s[i] \notin IllegalChars
                         \/ i = 1 \/ s[i - 1] \notin IllegalChars)

\* re.sub(r'[\\/:"*?<>|]+', "_", name): every maximal run of illegal
\* characters becomes one underscore.
sanitize_filename(s) ==
    LET kept == KeptIndices(s)
    IN  [j \in 1..Len(kept) |->
            IF s[kept[j]] \in IllegalChars THEN "_" ELSE s[kept[j]]]

TitleLimit == 100

Untitled == <<"U", "n", "t", "i", "t", "l", "e", "d">>

RECURSIVE StripLeft(_)
StripLeft(s) ==
    IF s # <<>> /\ Head(s) \in Whitespace THEN StripLeft(Tail(s)) ELSE s

RECURSIVE StripRight(_)
StripRight(s) ==
    IF s # <<>> /\ s[Len(s)] \in Whitespace
    THEN StripRight(SubSeq(s, 1, Len(s) - 1))
    ELSE s

\* str.strip()
Strip(s) == StripRight(StripLeft(s))

\* s[:n]
Take(s, n) == SubSeq(s, 1, IF Len(s) < n THEN Len(s) ELSE n)

\* Line 195: (title or "Untitled").strip(), for a title that is NULL or text.
StrippedTitle(title) ==
    Strip(IF title.kind = "null" \/ title.s = <<>> THEN Untitled ELSE title.s)

\* Line 196: sanitize_filename(title)[:100]
SafeTitle(title) == Take(sanitize_filename(StrippedTitle(title)), TitleLimit)

\* A title one character longer than the limit, ending in c.
LongTitle(c) == [i \in 1..(TitleLimit + 1) |-> IF i <= TitleLimit THEN "a" ELSE c]

\* ------------------------------------------------------------ idle values
\* The variables a specification does not use keep these values.
EmptyMap == [x \in {} |-> <<>>]

IdleHierarchy ==
    /\ folders = EmptyMap
    /\ folder_hierarchy = EmptyMap
    /\ root_folder_id = ""

IdleResources ==
    /\ resource_lookup = EmptyMap
    /\ src_status = EmptyMap
    /\ assets_exists = FALSE
    /\ assets_files = EmptyMap

IdleCall ==
    /\ body = <<>>
    /\ note_base_name = <<>>
    /\ body_processed = <<>>
    /\ rid_to_new_filename = <<>>
    /\ copied = <<>>
    /\ assets_created = FALSE
    /\ raised = FALSE

NoIteration ==
    [note |-> 0, ok |-> FALSE, stage |-> "none", called |-> FALSE,
     file |-> [dir |-> <<>>, name |-> <<>>], content |-> <<>>,
     assets_exists_before |-> FALSE, assets_files_before |-> EmptyMap]

IdleExport ==
    /\ notes_table = <<>>
    /\ resource_dir = [exists |-> FALSE, entries |-> EmptyMap]
    /\ dirs = {}
    /\ unwritable = {}
    /\ preexisting = {}
    /\ note_files = EmptyMap
    /\ notes = <<>>
    /\ idx = 0
    /\ success_count = 0
    /\ fail_count = 0
    /\ run = 1
    /\ last = NoIteration
    /\ written = <<>>

\* ------------------------------------------------------ folder hierarchy
TARGET_FOLDER_NAME == <<"j", "o", "p", "l", "i", "n">>

\* posixpath.join(a, b) for two components.
PathJoin(a, b) ==
    IF Len(b) > 0 /\ b[1] = "/" THEN b
    ELSE IF Len(a) = 0 \/ a[Len(a)] = "/" THEN a \o b
    ELSE a \o <<"/">> \o b

\* Line 72: the path of a subfolder titled folder_title under path.
FolderPath(path, folder_title) ==
    IF path # <<>> THEN PathJoin(path, sanitize_filename(folder_title))
    ELSE sanitize_filename(folder_title)

\* Folder identifiers, in the order the table returns its rows.
AllFolderIds == <<"f1", "f2", "f3", "f4", "f5">>
FolderIds == {AllFolderIds[i] : i \in 1..MaxFolders}

\* SELECT id, title FROM folders WHERE parent_id = ?
Subfolders(tbl, parent_id) ==
    SelectSeq(AllFolderIds,
              LAMBDA f : f \in DOMAIN tbl /\ tbl[f].parent_id = parent_id)

\* SELECT id FROM folders WHERE title = ? AND parent_id = ''
RootCandidates(tbl, title) ==
    {f \in DOMAIN tbl : tbl[f].title = title /\ tbl[f].parent_id = ""}

\* build_hierarchy(parent_id, path) acting on the dictionary h; VisitSubfolders
\* is its for loop from the i-th row on.
RECURSIVE build_hierarchy(_, _, _, _), VisitSubfolders(_, _, _, _, _)
build_hierarchy(h, tbl, parent_id, path) ==
    VisitSubfolders(h, tbl, Subfolders(tbl, parent_id), 1, path)

VisitSubfolders(h, tbl, subfolders, i, path) ==
    IF i > Len(subfolders) THEN h
    ELSE LET folder_id == subfolders[i]
             folder_path == FolderPath(path, tbl[folder_id].title)
             h1 == (folder_id :> folder_path) @@ h
         IN  VisitSubfolders(build_hierarchy(h1, tbl, folder_id, folder_path),
                             tbl, subfolders, i + 1, path)

\* get_folder_hierarchy once the root row is fetched.
HierarchyOf(tbl, root) == build_hierarchy((root :> <<>>), tbl, root, <<>>)

FolderTitles == {<<>>, <<"a">>, <<"b", ":">>, TARGET_FOLDER_NAME}

FolderTables ==
    [FolderIds -> [title : FolderTitles, parent_id : FolderIds \cup {""}]]

InitHierarchy ==
    /\ pc = "start"
    /\ folders \in FolderTables
    /\ folder_hierarchy = EmptyMap
    /\ root_folder_id = ""
    /\ name = <<>>
    /\ sanitized = <<>>
    /\ IdleResources
    /\ IdleCall
    /\ IdleExport

\* get_folder_hierarchy, a root folder found; fetchone() returns any matching row.
GetFolderHierarchy ==
    /\ pc = "start"
    /\ \E root \in RootCandidates(folders, TARGET_FOLDER_NAME) :
          /\ root_folder_id' = root
          /\ folder_hierarchy' = HierarchyOf(folders, root)
    /\ pc' = "resolved"
    /\ UNCHANGED <<folders, sanVars, resVars, assetVars, callVars, exportVars>>

\* get_folder_hierarchy, no root folder: ValueError.
RootNotFound ==
    /\ pc = "start"
    /\ RootCandidates(folders, TARGET_FOLDER_NAME) = {}
    /\ pc' = "not_found"
    /\ UNCHANGED <<hierVars, sanVars, resVars, assetVars, callVars, exportVars>>

NextHierarchy == GetFolderHierarchy \/ RootNotFound

SpecHierarchy == InitHierarchy /\ [][NextHierarchy]_vars

\* C1: for a folder table without parent cycles that has a parentless folder
\* with the target title, the mapping's keys are exactly the root and the
\* folders that reach it through parent_id links, the root maps to the empty
\* path, and a descendant maps to the sanitized titles of its ancestors below
\* the root and its own, joined in order with the path separator.
RECURSIVE ReachesRoot(_, _, _, _)
ReachesRoot(tbl, f, root, fuel) ==
    \/ f = root
    \/ /\ fuel > 0
       /\ f \in DOMAIN tbl
       /\ tbl[f].parent_id \in DOMAIN tbl
       /\ ReachesRoot(tbl, tbl[f].parent_id, root, fuel - 1)

RECURSIVE OnCycle(_, _, _, _)
OnCycle(tbl, f, g, fuel) ==
    /\ fuel > 0
    /\ g \in DOMAIN tbl
    /\ \/ tbl[g].parent_id = f
       \/ OnCycle(tbl, f, tbl[g].parent_id, fuel - 1)

Acyclic(tbl) ==
    \A f \in DOMAIN tbl : ~OnCycle(tbl, f, f, Cardinality(DOMAIN tbl))

RECURSIVE JoinedTitles(_, _, _)
JoinedTitles(tbl, f, root) ==
    IF f = root THEN <<>>
    ELSE IF tbl[f].parent_id = root THEN sanitize_filename(tbl[f].title)
    ELSE JoinedTitles(tbl, tbl[f].parent_id, root) \o <<"/">>
             \o sanitize_filename(tbl[f].title)

C1_HierarchyExact ==
    (pc = "resolved" /\ Acyclic(folders)) =>
        /\ DOMAIN folder_hierarchy =
             {f \in DOMAIN folders :
                ReachesRoot(folders, f, root_folder_id, MaxFolders)}
        /\ folder_hierarchy[root_folder_id] = <<>>
        /\ \A f \in DOMAIN folder_hierarchy :
             folder_hierarchy[f] = JoinedTitles(folders, f, root_folder_id)

\* ---------------------------------------------------- resource rewriter
\* A body is a sequence of tokens.  Ref(r) is one match of the pattern
\* ![](:/<32 hex digits>), r standing for the identifier; Txt(c) is one symbol
\* of other text; Link(fn) is the text ![](fn) of a rewritten reference.
Ref(r) == [k |-> "ref", v |-> <<r>>]
Txt(c) == [k |-> "txt", v |-> <<c>>]
Link(fn) == [k |-> "link", v |-> fn]

\* An extension is one symbol.
IMAGE_EXTENSIONS == {"png", "jpg", "jpeg", "gif", "bmp", "svg", "webp"}

\* str.lower() of one symbol.
Lower(c) ==
    CASE c = "PNG" -> "png"
      [] c = "JPG" -> "jpg"
      [] c = "PDF" -> "pdf"
      [] OTHER -> c

RECURSIVE LastDot(_, _)
LastDot(fn, i) ==
    IF i = 0 \/ fn[i] = "." THEN i ELSE LastDot(fn, i - 1)

\* res_filename.split(".")[-1].lower()
ExtensionOf(res_filename) ==
    LET tail == SubSeq(res_filename, LastDot(res_filename, Len(res_filename)) + 1,
                       Len(res_filename))
    IN  [i \in 1..Len(tail) |-> Lower(tail[i])]

IsImage(ext) == Len(ext) = 1 /\ ext[1] \in IMAGE_EXTENSIONS

Digit == <<"0", "1", "2", "3", "4", "5", "6", "7", "8", "9">>

RECURSIVE Decimal(_)
Decimal(n) ==
    IF n < 10 THEN <<Digit[n + 1]>>
    ELSE Decimal(n \div 10) \o <<Digit[(n % 10) + 1]>>

\* f"{image_counter:03d}"
Pad3(n) ==
    LET d == Decimal(n)
    IN  IF Len(d) >= 3 THEN d ELSE [i \in 1..(3 - Len(d)) |-> "0"] \o d

\* f"{note_base_name}-{image_counter:03d}.{ext}"
ImageFilename(base, counter, ext) ==
    base \o <<"-">> \o Pad3(counter) \o <<".">> \o ext

\* re.findall: the identifiers of the references of the body, left to right.
ResourceMatches(b) ==
    LET refs == SelectSeq(b, LAMBDA t : t.k = "ref")
    IN  [i \in 1..Len(refs) |-> refs[i].v[1]]

RECURSIVE UniqueFrom(_, _, _)
UniqueFrom(matches, i, unique_rids) ==
    IF i > Len(matches) THEN unique_rids
    ELSE IF \E j \in 1..Len(unique_rids) : unique_rids[j] = matches[i]
         THEN UniqueFrom(matches, i + 1, unique_rids)
         ELSE UniqueFrom(matches, i + 1, Append(unique_rids, matches[i]))

UniqueRidsKeepAll(matches) == matches

\* Lines 93-98: the identifiers without repeats, in first-occurrence order.
UniqueRids(matches) == UniqueFrom(matches, 1, <<>>)

\* A dictionary that keeps insertion order: a sequence of [rid, new_filename].
HasKey(items, rid) == \E i \in 1..Len(items) : items[i].rid = rid

ValueOf(items, rid) ==
    items[CHOOSE i \in 1..Len(items) : items[i].rid = rid].new_filename

DictSet(items, rid, fn) ==
    IF HasKey(items, rid)
    THEN [i \in 1..Len(items) |->
            IF items[i].rid = rid THEN [rid |-> rid, new_filename |-> fn]
            ELSE items[i]]
    ELSE Append(items, [rid |-> rid, new_filename |-> fn])

\* Lines 100-116: the loop over unique_rids from the i-th on.
RECURSIVE AssignNames(_, _, _, _, _, _)
AssignNames(unique_rids, i, image_counter, items, lookup, base) ==
    IF i > Len(unique_rids) THEN items
    ELSE LET rid == unique_rids[i]
         IN  IF rid \notin DOMAIN lookup
             THEN AssignNames(unique_rids, i + 1, image_counter, items, lookup, base)
             ELSE LET res_filename == lookup[rid]
                      ext == ExtensionOf(res_filename)
                  IN  IF IsImage(ext)
                      THEN AssignNames(unique_rids, i + 1, image_counter + 1,
                               DictSet(items, rid,
                                       ImageFilename(base, image_counter + 1, ext)),
                               lookup, base)
                      ELSE AssignNames(unique_rids, i + 1, image_counter,
                               DictSet(items, rid, res_filename), lookup, base)

ShouldCopyAlways(src_exists, dst_exists) == src_exists

\* Line 124: os.path.exists(src_path) and not os.path.exists(dst_path)
ShouldCopy(src_exists, dst_exists) == src_exists /\ ~dst_exists

\* Lines 120-129: the copy loop from the i-th item on.  st holds the assets
\* directory (exists, files), assets_created, the names copied by this call and
\* whether shutil.copyfile raised (the source cannot be read), which ends the
\* call.
RECURSIVE CopyLoop(_, _, _, _, _)
CopyLoop(items, i, st, lookup, status) ==
    IF i > Len(items) \/ st.raised THEN st
    ELSE LET rid == items[i].rid
             new_filename == items[i].new_filename
             src_exists == status[rid] # "missing"
             dst_exists == st.exists /\ new_filename \in DOMAIN st.files
         IN  IF ~ShouldCopy(src_exists, dst_exists)
             THEN CopyLoop(items, i + 1, st, lookup, status)
             ELSE LET make == ~st.created /\ ~st.exists
                      st1 == [st EXCEPT !.exists = TRUE,
                                        !.created = st.created \/ make]
                  IN  IF status[rid] = "unreadable"
                      THEN [st1 EXCEPT !.raised = TRUE]
                      ELSE CopyLoop(items, i + 1,
                               [st1 EXCEPT
                                  !.files = (new_filename :> lookup[rid]) @@ st.files,
                                  !.copied = Append(st.copied, new_filename)],
                               lookup, status)

CopyFilesEager(items, lookup, status, exists, files) ==
    CopyLoop(items, 1,
             [exists |-> TRUE, files |-> files, created |-> ~exists,
              copied |-> <<>>, raised |-> FALSE],
             lookup, status)

\* Lines 118-129.
CopyFiles(items, lookup, status, exists, files) ==
    CopyLoop(items, 1,
             [exists |-> exists, files |-> files, created |-> FALSE,
              copied |-> <<>>, raised |-> FALSE],
             lookup, status)

ReplaceResourceDropUnknown(tok, items) ==
    IF tok.k = "ref" /\ HasKey(items, tok.v[1])
    THEN Link(ValueOf(items, tok.v[1]))
    ELSE IF tok.k = "ref" THEN Link(<<>>) ELSE tok

\* Lines 132-140: replace_resource applied to one token by re.sub.
ReplaceResource(tok, items) ==
    IF tok.k = "ref" /\ HasKey(items, tok.v[1])
    THEN Link(ValueOf(items, tok.v[1]))
    ELSE tok

\* Line 142: str.replace("&nbsp;", " ") within one token.
ReplaceNbsp(tok) ==
    [tok EXCEPT !.v = [j \in 1..Len(tok.v) |->
                         IF tok.v[j] = "&nbsp;" THEN " " ELSE tok.v[j]]]

\* process_resources(body, resource_lookup, note_base_name, assets_dir): the
\* returned text, the rename mapping and the assets directory as the call
\* leaves it.
process_resources(b, lookup, status, base, exists, files) ==
    LET items == AssignNames(UniqueRids(ResourceMatches(b)), 1, 0, <<>>, lookup, base)
        st == CopyFiles(items, lookup, status, exists, files)
    IN  [rid_to_new_filename |-> items,
         exists |-> st.exists,
         files |-> st.files,
         created |-> st.created,
         copied |-> st.copied,
         raised |-> st.raised,
         text |-> IF st.raised THEN <<>>
                  ELSE [i \in 1..Len(b) |-> ReplaceNbsp(ReplaceResource(b[i], items))]]

\* ------------------------------------------- resource rewriter, one call
Rids == {"r1", "r2", "r3"}

\* The stored filename of each identifier the resource directory may hold.
StoredFilename(rid) ==
    CASE rid = "r1" -> <<"r1", ".", "png">>
      [] rid = "r2" -> <<"r2", ".", "PNG">>
      [] OTHER -> <<rid, ".", "pdf">>

\* What may lie at a stored filename's path: a file, nothing (the entry is a
\* dangling link), or a file that cannot be read.
SrcStatuses(rid) ==
    IF rid = "r3" THEN {"file", "missing", "unreadable"} ELSE {"file", "missing"}

BodyTokens == {Ref(r) : r \in Rids} \cup {Txt("&nbsp;")}

RECURSIVE SeqsUpTo(_, _)
SeqsUpTo(A, n) ==
    IF n = 0 THEN {<<>>}
    ELSE LET shorter == SeqsUpTo(A, n - 1)
         IN  shorter \cup {Append(q, c) : q \in shorter, c \in A}

Bodies == SeqsUpTo(BodyTokens, MaxBodyLen) \ {<<>>}

BaseNames == {<<"n">>, <<"n", "&nbsp;">>}

InitResources ==
    /\ pc = "start"
    /\ \E indexed \in SUBSET Rids :
          /\ resource_lookup = [r \in indexed |-> StoredFilename(r)]
          /\ src_status \in {st \in [indexed -> {"file", "missing", "unreadable"}] :
                                \A r \in indexed : st[r] \in SrcStatuses(r)}
    /\ assets_exists \in BOOLEAN
    /\ assets_files =
          IF assets_exists
          THEN (ImageFilename(<<"n">>, 1, <<"png">>) :> <<"r9", ".", "png">>)
          ELSE EmptyMap
    /\ body \in Bodies
    /\ note_base_name \in BaseNames
    /\ body_processed = <<>>
    /\ rid_to_new_filename = <<>>
    /\ copied = <<>>
    /\ assets_created = FALSE
    /\ raised = FALSE
    /\ name = <<>>
    /\ sanitized = <<>>
    /\ IdleHierarchy
    /\ IdleExport

\* One call of process_resources.
ProcessResources ==
    /\ pc = "start"
    /\ \E r \in {process_resources(body, resource_lookup, src_status,
                                    note_base_name, assets_exists, assets_files)} :
           /\ rid_to_new_filename' = r.rid_to_new_filename
           /\ assets_exists' = r.exists
           /\ assets_files' = r.files
           /\ assets_created' = r.created
           /\ copied' = r.copied
           /\ raised' = r.raised
           /\ body_processed' = r.text
    /\ pc' = "rewritten"
    /\ UNCHANGED <<body, note_base_name, sanVars, hierVars, resVars, exportVars>>

NextResources == ProcessResources

SpecResources == InitResources /\ [][NextResources]_vars

\* The claims' own reading of the inputs of the latest call.
Indexed(r) == r \in DOMAIN resource_lookup

ImageRid(r) ==
    /\ Indexed(r)
    /\ Lower(resource_lookup[r][Len(resource_lookup[r])])
         \in {"png", "jpg", "jpeg", "gif", "bmp", "svg", "webp"}

Occurs(r) == \E i \in 1..Len(body) : body[i] = Ref(r)

FirstOccurrence(r) ==
    CHOOSE i \in 1..Len(body) :
        body[i] = Ref(r) /\ \A j \in 1..(i - 1) : body[j] # Ref(r)

\* The number of image identifiers first seen at or before r's first occurrence.
SeqNo(r) ==
    Cardinality({q \in Rids : ImageRid(q) /\ Occurs(q)
                                /\ FirstOccurrence(q) <= FirstOccurrence(r)})

\* The sequence numbers below ten, three digits wide.
ThreeDigits(n) == <<"0", "0", Digit[n + 1]>>

NumberedName(r) ==
    note_base_name \o <<"-">> \o ThreeDigits(SeqNo(r))
        \o <<".", Lower(resource_lookup[r][Len(resource_lookup[r])])>>

Suffix(q, n) == SubSeq(q, Len(q) - n + 1, Len(q))

HasNbsp(q) == \E i \in 1..Len(q) : q[i] = "&nbsp;"

C8_UnknownKept ==
    pc = "rewritten" =>
      /\ \A i \in 1..Len(rid_to_new_filename) : Indexed(rid_to_new_filename[i].rid)
      /\ \A i \in 1..Len(copied) :
           \E r \in DOMAIN resource_lookup :
              /\ Occurs(r)
              /\ copied[i] = ValueOf(rid_to_new_filename, r)
              /\ assets_files[copied[i]] = resource_lookup[r]
      /\ \A r \in Rids : Occurs(r) /\ ImageRid(r) =>
           Suffix(ValueOf(rid_to_new_filename, r), 5) =
             ThreeDigits(SeqNo(r)) \o <<".", Lower(resource_lookup[r][3])>>
      /\ ~raised =>
           /\ Len(body_processed) = Len(body)
           /\ \A i \in 1..Len(body) :
                /\ (body[i].k = "ref" /\ ~Indexed(body[i].v[1])) =>
                      body_processed[i] = body[i]
                /\ (body[i].k = "ref" /\ Indexed(body[i].v[1])) =>
                      body_processed[i].k = "link"

C8_Witness ==
    /\ pc = "rewritten"
    /\ ~raised
    /\ \E i, j \in 1..Len(body) :
          /\ i < j
          /\ body[i] = Ref("r1") /\ ~Indexed("r1")
          /\ body_processed[i] = Ref("r1")
          /\ body[j] = Ref("r2") /\ Indexed("r2")
          /\ body_processed[j] = Link(<<"n", "-", "0", "0", "1", ".", "png">>)
          /\ copied = <<<<"n", "-", "0", "0", "1", ".", "png">>>>

\* ------------------------------------------------------------ export loop
\* The segments of a relative path; the file system ignores empty ones.
RECURSIVE SplitPath(_, _, _, _)
SplitPath(p, i, cur, acc) ==
    IF i > Len(p) THEN (IF cur = <<>> THEN acc ELSE Append(acc, cur))
    ELSE IF p[i] = "/"
         THEN SplitPath(p, i + 1, <<>>, IF cur = <<>> THEN acc ELSE Append(acc, cur))
         ELSE SplitPath(p, i + 1, Append(cur, p[i]), acc)

\* Lines 199-204: note_dir, as the directory below the output directory.
NoteDir(folder_path) == SplitPath(folder_path, 1, <<>>, <<>>)

\* Lines 201 and 205: output_file.
OutputFile(folder_path, safe_title) ==
    [dir |-> NoteDir(folder_path), name |-> safe_title \o <<".md">>]

\* os.makedirs(target, exist_ok=True): the missing directories are created
\* from the top; creating one in a directory that is not writable raises.
RECURSIVE MakeDirsFrom(_, _, _, _)
MakeDirsFrom(ds, unw, target, k) ==
    IF k > Len(target) THEN [dirs |-> ds, raised |-> FALSE]
    ELSE LET d == SubSeq(target, 1, k)
         IN  IF d \in ds THEN MakeDirsFrom(ds, unw, target, k + 1)
             ELSE IF k > 0 /\ SubSeq(target, 1, k - 1) \in unw
                  THEN [dirs |-> ds, raised |-> TRUE]
                  ELSE MakeDirsFrom(ds \cup {d}, unw, target, k + 1)

MakeDirs(ds, unw, target) == MakeDirsFrom(ds, unw, target, 0)

\* Lines 219-220.
EnsureNoteDir(ds, unw, note_dir) ==
    IF note_dir \in ds THEN [dirs |-> ds, raised |-> FALSE]
    ELSE MakeDirs(ds, unw, note_dir)

\* open(output_file, "w"): a new file cannot be created in a directory that
\* is not writable; an existing file is opened and truncated.
CanOpenForWrite(unw, nfiles, output_file) ==
    output_file \in DOMAIN nfiles \/ output_file.dir \notin unw

WriteKeepExisting(nfiles, output_file, text) ==
    IF output_file \in DOMAIN nfiles THEN nfiles
    ELSE (output_file :> text) @@ nfiles

\* Lines 223-224: the file's content becomes the text.
WriteFile(nfiles, output_file, text) == (output_file :> text) @@ nfiles

NeedsRewriteAlways(processed_body) == TRUE

\* Line 210: if processed_body
NeedsRewrite(processed_body) == processed_body # <<>>

NoCall ==
    [rid_to_new_filename |-> <<>>, exists |-> FALSE, files |-> EmptyMap,
     created |-> FALSE, copied |-> <<>>, raised |-> FALSE, text |-> <<>>]

\* Lines 190-231: one iteration of the loop on note n, from the state given:
\* what it did and the state it leaves.
ExportOne(n, hierarchy, lookup, status, ds, unw, nfiles, aex, afiles) ==
    LET folder_path ==
            IF n.parent_id \in DOMAIN hierarchy THEN hierarchy[n.parent_id] ELSE <<>>
        unchanged ==
            [ok |-> FALSE, stage |-> "path", called |-> FALSE,
             file |-> [dir |-> <<>>, name |-> <<>>], content |-> <<>>,
             dirs |-> ds, note_files |-> nfiles,
             assets_exists |-> aex, assets_files |-> afiles,
             base |-> <<>>, raw |-> <<>>, call |-> NoCall]
    IN  IF n.title.kind = "blob" THEN unchanged
        ELSE
        LET safe_title == SafeTitle(n.title)
            output_file == OutputFile(folder_path, safe_title)
            raw == IF n.body.kind = "null" THEN <<>> ELSE n.body.toks
            called == NeedsRewrite(raw)
            r == IF called
                 THEN process_resources(raw, lookup, status, safe_title, aex, afiles)
                 ELSE [NoCall EXCEPT !.exists = aex, !.files = afiles, !.text = raw]
            rewritten ==
                [unchanged EXCEPT !.stage = "rewrite", !.called = called,
                                  !.file = output_file, !.base = safe_title,
                                  !.raw = raw, !.call = r,
                                  !.assets_exists = r.exists,
                                  !.assets_files = r.files]
        IN  IF r.raised THEN rewritten
            ELSE
            LET made == EnsureNoteDir(ds, unw, output_file.dir)
                withdirs == [rewritten EXCEPT !.stage = "makedirs",
                                              !.content = r.text,
                                              !.dirs = made.dirs]
            IN  IF made.raised THEN withdirs
                ELSE IF ~CanOpenForWrite(unw, nfiles, output_file)
                     THEN [withdirs EXCEPT !.stage = "write"]
                     ELSE [withdirs EXCEPT
                             !.stage = "none", !.ok = TRUE,
                             !.note_files = WriteFile(nfiles, output_file, r.text)]

\* The rows of the folders table of the exported database.
MainFolders ==
    ("f1" :> [title |-> TARGET_FOLDER_NAME, parent_id |-> ""])
    @@ ("f2" :> [title |-> <<"a">>, parent_id |-> "f1"])
    @@ ("f3" :> [title |-> <<"b", ":">>, parent_id |-> "f2"])
    @@ ("f4" :> [title |-> <<"c">>, parent_id |-> "f1"])
    @@ ("f5" :> [title |-> <<"o">>, parent_id |-> ""])

NoRootFolders == ("f5" :> [title |-> <<"o">>, parent_id |-> ""])

\* Symbols that stand for 32 hexadecimal digits, and for a word (\w+).
HexIds == {"r1", "r2", "r3", "r4", "r5"}
Words == IMAGE_EXTENSIONS \cup {"PNG", "JPG", "PDF", "pdf", "gz", "tar"}

\* Line 45: re.match(r"^[a-f0-9]{32}\.\w+$", fname)
MatchesResourceName(fname) ==
    /\ Len(fname) = 3
    /\ fname[1] \in HexIds
    /\ fname[2] = "."
    /\ fname[3] \in Words

\* build_resource_lookup()
ResourceLookupOf(rdir) ==
    IF ~rdir.exists THEN EmptyMap
    ELSE LET matching == {f \in DOMAIN rdir.entries : MatchesResourceName(f)}
         IN  [rid \in {f[1] : f \in matching} |->
                 CHOOSE f \in matching : f[1] = rid]

ResourceDir ==
    [exists |-> TRUE,
     entries |-> (<<"r1", ".", "png">> :> "file")
                 @@ (<<"r2", ".", "PNG">> :> "file")
                 @@ (<<"r3", ".", "pdf">> :> "unreadable")
                 @@ (<<"r4", ".", "png">> :> "missing")
                 @@ (<<".DS_Store">> :> "file")
                 @@ (<<"r5", ".", "tar", ".", "gz">> :> "file")]

NoResourceDir == [exists |-> FALSE, entries |-> EmptyMap]

\* What the export starts from: the folders, the resource directory, the
\* directories of the output tree and those of them that are read-only.
Worlds ==
    {[folders |-> MainFolders, resource_dir |-> ResourceDir,
      dirs |-> {}, unwritable |-> {}],
     [folders |-> MainFolders, resource_dir |-> ResourceDir,
      dirs |-> {<<>>, <<<<"a">>>>}, unwritable |-> {<<>>}],
     [folders |-> MainFolders, resource_dir |-> NoResourceDir,
      dirs |-> {}, unwritable |-> {}],
     [folders |-> NoRootFolders, resource_dir |-> ResourceDir,
      dirs |-> {}, unwritable |-> {}]}

Text(s) == [kind |-> "text", s |-> s]
NullText == [kind |-> "null", s |-> <<>>]
BlobText == [kind |-> "blob", s |-> <<>>]
Body(toks) == [kind |-> "text", toks |-> toks]
NullBody == [kind |-> "null", toks |-> <<>>]

Note(title, b, parent_id) ==
    [title |-> title, body |-> b, parent_id |-> parent_id,
     is_conflict |-> 0, deleted_time |-> 0]

\* The rows the notes table may hold.
NoteRows ==
    {Note(Text(<<"t">>), Body(<<Ref("r1")>>), "f1"),
     Note(Text(<<"t">>), Body(<<Ref("r2"), Txt("&nbsp;")>>), "f3"),
     Note(NullText, NullBody, "f1"),
     Note(Text(<<>>), Body(<<>>), "f3"),
     Note(Text(<<" ">>), Body(<<Txt("x")>>), "f1"),
     Note(Text(LongTitle("b")), Body(<<Txt("x")>>), "f1"),
     Note(Text(LongTitle("c")), Body(<<Txt("y")>>), "f1"),
     Note(Text(<<"t">>), Body(<<Ref("r3")>>), "f1"),
     Note(Text(<<" ", "t">>), Body(<<Txt("y")>>), "f1"),
     [Note(Text(<<"d">>), Body(<<Txt("x")>>), "f1") EXCEPT !.is_conflict = 1],
     [Note(Text(<<"e">>), Body(<<Txt("x")>>), "f1") EXCEPT !.deleted_time = 1],
     Note(BlobText, Body(<<Txt("x")>>), "f4"),
     Note(Text(<<"m">>), Body(<<Ref("r4"), Ref("r5")>>), "f4"),
     Note(Text(<<"o">>), Body(<<Txt("x")>>), "f5")}

Init ==
    /\ pc = "start"
    /\ \E w \in Worlds :
          /\ folders = w.folders
          /\ resource_dir = w.resource_dir
          /\ dirs = w.dirs
          /\ preexisting = w.dirs
          /\ unwritable = w.unwritable
    /\ notes_table \in [1..MaxNotes -> NoteRows]
    /\ note_files = EmptyMap
    /\ notes = <<>>
    /\ idx = 0
    /\ success_count = 0
    /\ fail_count = 0
    /\ run = 1
    /\ last = NoIteration
    /\ written = <<>>
    /\ folder_hierarchy = EmptyMap
    /\ root_folder_id = ""
    /\ name = <<>>
    /\ sanitized = <<>>
    /\ IdleResources
    /\ IdleCall

\* Line 162: resource_lookup = build_resource_lookup()
BuildResourceLookup ==
    /\ pc = "resolved"
    /\ LET lookup == ResourceLookupOf(resource_dir)
       IN  /\ resource_lookup' = lookup
           /\ src_status' = [rid \in DOMAIN lookup |-> resource_dir.entries[lookup[rid]]]
    /\ pc' = "indexed"
    /\ UNCHANGED <<sanVars, hierVars, assetVars, callVars, exportVars>>

\* Lines 166-173: the eligible notes of the folders of the hierarchy.
QueriedNotes(tbl, hierarchy) ==
    SelectSeq(tbl, LAMBDA n : /\ n.parent_id \in DOMAIN hierarchy
                              /\ n.is_conflict = 0
                              /\ n.deleted_time = 0)

\* Lines 166-179, some note found.
QueryNotes ==
    /\ pc = "indexed"
    /\ QueriedNotes(notes_table, folder_hierarchy) # <<>>
    /\ notes' = QueriedNotes(notes_table, folder_hierarchy)
    /\ idx' = 0
    /\ success_count' = 0
    /\ fail_count' = 0
    /\ pc' = "loop"
    /\ UNCHANGED <<sanVars, hierVars, resVars, assetVars, callVars, inputVars,
                   treeVars, run, last, written>>

\* Lines 175-177: no note found.
NoNotes ==
    /\ pc = "indexed"
    /\ QueriedNotes(notes_table, folder_hierarchy) = <<>>
    /\ pc' = "done"
    /\ UNCHANGED <<sanVars, hierVars, resVars, assetVars, callVars, exportVars>>

AfterNoteStopOnFailure(ok) == IF ok THEN "loop" ELSE "done"

\* Lines 229-231: the exception is caught inside the loop, which goes on.
AfterNote(ok) == "loop"

\* Lines 189-231: one iteration of the loop.
ExportNote ==
    /\ pc = "loop"
    /\ idx < Len(notes)
    /\ \E o \in {ExportOne(notes[idx + 1], folder_hierarchy, resource_lookup,
                            src_status, dirs, unwritable, note_files,
                            assets_exists, assets_files)} :
           /\ idx' = idx + 1
           /\ success_count' = IF o.ok THEN success_count + 1 ELSE success_count
           /\ fail_count' = IF o.ok THEN fail_count ELSE fail_count + 1
           /\ dirs' = o.dirs
           /\ note_files' = o.note_files
           /\ assets_exists' = o.assets_exists
           /\ assets_files' = o.assets_files
           /\ written' = IF o.ok
                         THEN Append(written, [file |-> o.file, content |-> o.content,
                                               run |-> run])
                         ELSE written
           /\ last' = [note |-> idx + 1, ok |-> o.ok, stage |-> o.stage,
                       called |-> o.called, file |-> o.file, content |-> o.content,
                       assets_exists_before |-> assets_exists,
                       assets_files_before |-> assets_files]
           /\ IF o.called
              THEN /\ body' = o.raw
                   /\ note_base_name' = o.base
                   /\ body_processed' = o.call.text
                   /\ rid_to_new_filename' = o.call.rid_to_new_filename
                   /\ copied' = o.call.copied
                   /\ assets_created' = o.call.created
                   /\ raised' = o.call.raised
              ELSE UNCHANGED callVars
           /\ pc' = AfterNote(o.ok)
    /\ UNCHANGED <<sanVars, hierVars, resVars, inputVars, unwritable, preexisting,
                   notes, run>>

\* Lines 233-235: the loop is over.
Report ==
    /\ pc = "loop"
    /\ idx = Len(notes)
    /\ pc' = "done"
    /\ UNCHANGED <<sanVars, hierVars, resVars, assetVars, callVars, exportVars>>

\* The script is run again on the same database and the same vault.
Rerun ==
    /\ pc \in {"done", "not_found"}
    /\ run < MaxRuns
    /\ run' = run + 1
    /\ pc' = "start"
    /\ folder_hierarchy' = EmptyMap
    /\ root_folder_id' = ""
    /\ resource_lookup' = EmptyMap
    /\ src_status' = EmptyMap
    /\ notes' = <<>>
    /\ idx' = 0
    /\ success_count' = 0
    /\ fail_count' = 0
    /\ last' = NoIteration
    /\ body' = <<>>
    /\ note_base_name' = <<>>
    /\ body_processed' = <<>>
    /\ rid_to_new_filename' = <<>>
    /\ copied' = <<>>
    /\ assets_created' = FALSE
    /\ raised' = FALSE
    /\ UNCHANGED <<sanVars, folders, assetVars, inputVars, treeVars, written>>

Next ==
    \/ GetFolderHierarchy
    \/ RootNotFound
    \/ BuildResourceLookup
    \/ QueryNotes
    \/ NoNotes
    \/ ExportNote
    \/ Report
    \/ Rerun

Spec == Init /\ [][Next]_vars

\* ------------------------------------------------- sanitizer, on its own
Alphabet == {"\\", "/", ":", "\"", "*", "?", "<", ">", "|", "a", " "}

RECURSIVE StringsUpTo(_, _)
StringsUpTo(A, n) ==
    IF n = 0 THEN {<<>>}
    ELSE LET shorter == StringsUpTo(A, n - 1)
         IN  shorter \cup {Append(s, c) : s \in shorter, c \in A}

Names == StringsUpTo(Alphabet, MaxNameLen) \cup {LongTitle("/"), LongTitle("a")}

InitSanitize ==
    /\ pc = "start"
    /\ name \in Names
    /\ sanitized = <<>>
    /\ IdleHierarchy
    /\ IdleResources
    /\ IdleCall
    /\ IdleExport

\* sanitize_filename(name)
SanitizeName ==
    /\ pc = "start"
    /\ sanitized' = sanitize_filename(name)
    /\ pc' = "sanitized"
    /\ UNCHANGED <<name, hierVars, resVars, assetVars, callVars, exportVars>>

\* Line 72: name as the title of a folder below the root or below folder p.
SanitizeFolderTitle ==
    /\ pc = "start"
    /\ \E path \in {<<>>, <<"p">>} :
          /\ sanitized' = FolderPath(path, name)
          /\ pc' = IF path = <<>> THEN "folder_top" ELSE "folder_sub"
    /\ UNCHANGED <<name, hierVars, resVars, assetVars, callVars, exportVars>>

\* Lines 195-196: name as the title of a note.
SanitizeNoteTitle ==
    /\ pc = "start"
    /\ sanitized' = SafeTitle(Text(name))
    /\ pc' = "safe_title"
    /\ UNCHANGED <<name, hierVars, resVars, assetVars, callVars, exportVars>>

NextSanitize == SanitizeName \/ SanitizeFolderTitle \/ SanitizeNoteTitle

SpecSanitize == InitSanitize /\ [][NextSanitize]_vars

\* ------------------------------------------------------------------ claims
ForbiddenChars == {"\\", "/", ":", "\"", "*", "?", "<", ">", "|"}

Free(q) == \A i \in 1..Len(q) : q[i] \notin ForbiddenChars

\* C9: sanitize_filename(s) holds none of \ / : " * ? < > | and sanitizing it
\* again changes nothing; so the segment a folder title adds to a path of the
\* hierarchy mapping, and the base name of a note file, hold none of them.
C9_SanitizedClean ==
    /\ pc = "sanitized" =>
          /\ Free(sanitized)
          /\ sanitize_filename(sanitized) = sanitized
    /\ pc = "folder_top" => Free(sanitized)
    /\ pc = "folder_sub" =>
          /\ Len(sanitized) >= 2
          /\ SubSeq(sanitized, 1, 2) = <<"p", "/">>
          /\ Free(SubSeq(sanitized, 3, Len(sanitized)))
    /\ pc = "safe_title" =>
          /\ Free(sanitized)
          /\ sanitize_filename(sanitized) = sanitized

C9_Witness ==
    /\ pc = "sanitized"
    /\ name = <<"a", "|", ":">>
    /\ sanitized = <<"a", "_">>

BlankTitle(title) ==
    \/ title.kind = "null"
    \/ /\ title.kind = "text"
       /\ \A i \in 1..Len(title.s) : title.s[i] \in {" ", "\t"}

\* C4: an eligible note whose title is NULL, empty or only whitespace is
\* written to the file Untitled.md of its output directory.
C4_BlankTitleUntitled ==
    (last.note > 0 /\ last.ok /\ BlankTitle(notes[last.note].title)) =>
        /\ last.file.name = <<"U", "n", "t", "i", "t", "l", "e", "d", ".md">>
        /\ last.file \in DOMAIN note_files

\* C5: an exception in one note's processing never stops the loop: the notes
\* are attempted once each in query order, each counted as one success or one
\* failure, and when the loop is left the two counters add up to the number of
\* queried notes.
C5_EveryNoteCounted ==
    /\ success_count + fail_count = idx
    /\ idx <= Len(notes)
    /\ pc = "loop" => last.note = idx
    /\ last.note > 0 => (last.ok <=> last.stage = "none")
    /\ (pc = "done" /\ notes # <<>>) =>
          /\ idx = Len(notes)
          /\ last.note = Len(notes)
          /\ success_count + fail_count = Len(notes)

\* A note that fails, then one that is exported.
C5_Witness ==
    /\ pc = "done"
    /\ Len(notes) = 2
    /\ fail_count = 1
    /\ success_count = 1
    /\ last.ok
    /\ last.note = 2

EmptyBody(b) == b.kind = "null" \/ b.toks = <<>>

\* C7: for an eligible note whose body is NULL or empty, process_resources is
\* not called, the assets directory is left as it was (not created, no file
\* copied), and the file written is empty.
C7_EmptyBodyNoRewrite ==
    (last.note > 0 /\ EmptyBody(notes[last.note].body)) =>
        /\ ~last.called
        /\ last.stage # "rewrite"
        /\ assets_exists = last.assets_exists_before
        /\ assets_files = last.assets_files_before
        /\ last.ok => /\ last.file \in DOMAIN note_files
                      /\ note_files[last.file] = <<>>

C7_Witness ==
    /\ last.note > 0
    /\ notes[last.note].body.kind = "null"
    /\ last.ok
    /\ note_files[last.file] = <<>>
    /\ ~assets_exists

LastWrite(f) ==
    written[CHOOSE k \in 1..Len(written) :
               /\ written[k].file = f
               /\ \A j \in (k + 1)..Len(written) : written[j].file # f]

\* C10: a note file is overwritten without condition: each output path holds
\* the processed body of the last note written to it, in this run or an
\* earlier one, and every completed write counts as a success; two notes with
\* the same folder path and the same truncated title leave the later one's
\* content.
C10_LastWriteWins ==
    /\ DOMAIN note_files = {written[k].file : k \in 1..Len(written)}
    /\ \A f \in DOMAIN note_files : note_files[f] = LastWrite(f).content
    /\ pc \in {"loop", "done"} =>
          success_count = Cardinality({k \in 1..Len(written) : written[k].run = run})

\* Two titles that differ only after the 100th character.
C10_Witness ==
    /\ pc = "done"
    /\ Len(notes) = 2
    /\ notes[1].title.s = LongTitle("b")
    /\ notes[2].title.s = LongTitle("c")
    /\ success_count = 2
    /\ Cardinality(DOMAIN note_files) = 1
    /\ \A f \in DOMAIN note_files :
          /\ Len(f.name) = TitleLimit + 1
          /\ note_files[f] = <<Txt("y")>>

\* C3: over the calls of one run and of later runs, a file is copied into
\* the assets directory only under a name no file there has; a file of the
\* assets directory is never changed, removed or copied a second time.
C3_FirstWriterWins ==
    [][/\ \A f \in DOMAIN assets_files :
             f \in DOMAIN assets_files' /\ assets_files'[f] = assets_files[f]
       /\ assets_exists => assets_exists'
       /\ assets_files' # assets_files => (idx' = idx + 1 /\ last'.called)
       /\ (idx' = idx + 1 /\ last'.called) =>
             /\ \A i \in 1..Len(copied') : copied'[i] \notin DOMAIN assets_files
             /\ \A i, j \in 1..Len(copied') : copied'[i] = copied'[j] => i = j
             /\ DOMAIN assets_files' =
                  DOMAIN assets_files \cup {copied'[i] : i \in 1..Len(copied')}]_vars

\* A later note maps another resource to a name the directory already holds.
C3_Witness ==
    /\ last.note > 0
    /\ last.called
    /\ \E i \in 1..Len(rid_to_new_filename) :
          LET item == rid_to_new_filename[i]
          IN  /\ item.new_filename \in DOMAIN assets_files
              /\ assets_files[item.new_filename] # resource_lookup[item.rid]
              /\ src_status[item.rid] = "file"

\* The notes attempted so far, in this run or an earlier one.
Attempted == IF run > 1 THEN 1..Len(notes) ELSE 1..idx

DirOfNote(n) == NoteDir(folder_hierarchy[n.parent_id])

IsPrefix(d, e) == Len(d) <= Len(e) /\ SubSeq(e, 1, Len(d)) = d

Eligible(n) == n.is_conflict = 0 /\ n.deleted_time = 0

HoldsNote(f) ==
    \E k \in 1..Len(notes_table) :
        Eligible(notes_table[k]) /\ notes_table[k].parent_id = f

CreatedDirs == dirs \ preexisting

====
